---- MODULE Spec2Model ----
(***************************************************************************)
(* A model of two components of kwok:                                      *)
(*   - pkg/kwokctl/snapshot/load.go: the snapshot loader, which replays a   *)
(*     stream of objects into a cluster and resolves owner references;      *)
(*   - pkg/config/resources/dynamic.go: the dynamic getter, a cache of a    *)
(*     value derived from an informer's store.                              *)
(* The two components share no state.  Spec is the loader, SpecCache the    *)
(* dynamic getter.                                                          *)
(***************************************************************************)
EXTENDS Integers, Sequences, FiniteSets, TLC

VARIABLES
    \* ---- loader (load.go) ----
    pc,         \* position of loader.Load: "decoding", "done", "failed"
    ctxErr,     \* ctx.Err() # nil: the caller cancelled the context
    srcUID,     \* the UID the objects of this snapshot carry in metadata.uid
    refUID,     \* the UID the owner references of this snapshot carry
    stream,     \* the objects decoded so far, as they were decoded
    objs,       \* the decoded objects as they are now (load and apply mutate them in place)
    exist,      \* loader.exist: uniqueKey -> UID assigned by the target
    pending,    \* loader.pending: uniqueKey -> sequence of objects (indices into objs)
    target,     \* the target cluster: [kind, name] -> UID it assigned
    calls,      \* the calls the write client received, in order
    diag,       \* the diagnostics apply logged, in order
    recorded,   \* the writes to loader.exist, in order
    filtered,   \* objects logged as skipped (filtered)
    reported,   \* objects logged as skipped (missing owner): index -> number of log lines
    fails,      \* number of apply calls that returned nil so far
    \* ---- dynamic getter (dynamic.go) ----
    started,    \* Start has returned
    fifoVer,    \* newest resource version the reflector has pushed into the informer's queue
    lastSync,   \* controller.LastSyncResourceVersion(); 0 is the empty string
    storeVer,   \* resource version the mirror store (c.store) reflects
    currentVer, \* c.currentVer; 0 is the empty string
    data,       \* c.data: the mirror version it was converted from, ZeroData when never computed
    readers,    \* c.mut: number of read-lock holders
    writer,     \* c.mut: the write-lock holder, or 0
    gpc,        \* position of each Get call
    latestVer,  \* the local latestVer of each Get call
    ncalls,     \* number of Get calls each caller has begun
    convLog,    \* executions of convertFunc, in order
    retLog      \* returns of Get, in order

loaderVars == <<pc, ctxErr, srcUID, refUID, stream, objs, exist, pending, target, calls,
                diag, recorded, filtered, reported, fails>>
cacheVars == <<started, fifoVer, lastSync, storeVer, currentVer, data, readers, writer,
               gpc, latestVer, ncalls, convLog, retLog>>
vars == <<loaderVars, cacheVars>>

-----------------------------------------------------------------------------
(* Bounds of the model *)

MaxStream == 3      \* objects in one stream
MaxOwners == 2      \* owner references per object
MaxFail == 1        \* apply calls that fail in one load

-----------------------------------------------------------------------------
(* The objects of a stream *)

APIVersions == {"v1"}
Names == {"a", "b", "c"}
OwnerNames == {"a", "b"}
\* the kinds: "K" is a kind the user asked to load, "X" one they did not ask for
\* metadata.uid as recorded in the snapshot; "" is an object without one
SnapshotUIDs == {"", "u"}
\* the UIDs the target cluster assigns, one per created object
AssignedUID == [n \in Names |-> CASE n = "a" -> "ta" [] n = "b" -> "tb" [] n = "c" -> "tc"]
\* a nil *unstructured.Unstructured
Nil == "<nil>"

OwnerRefs(u) == [APIVersion : APIVersions, Kind : {"K"}, Name : OwnerNames, UID : {u}]

RECURSIVE SeqsUpTo(_, _)
SeqsUpTo(S, n) ==
    IF n = 0 THEN {<<>>}
    ELSE LET shorter == SeqsUpTo(S, n - 1)
         IN shorter \cup {Append(s, x) : s \in {t \in shorter : Len(t) = n - 1}, x \in S}

\* the objects a snapshot whose objects carry UID u and whose references carry UID r can hold
Objects(u, r) ==
    [apiVersion : APIVersions, kind : {"K"}, name : Names, uid : {u},
     ownerReferences : SeqsUpTo(OwnerRefs(r), MaxOwners)]
    \cup
    [apiVersion : APIVersions, kind : {"X"}, name : {"a"}, uid : {u},
     ownerReferences : SeqsUpTo(OwnerRefs(r), 1)]

-----------------------------------------------------------------------------
(* Maps *)

Put(f, k, v) == [x \in (DOMAIN f) \cup {k} |-> IF x = k THEN v ELSE f[x]]
Remove(f, k) == [x \in (DOMAIN f) \ {k} |-> f[x]]
EmptyMap == [x \in {} |-> 0]

-----------------------------------------------------------------------------
(* load.go *)

uniqueKeyFromOwnerReference(ownerReference) ==
    [APIVersion |-> ownerReference.APIVersion, Kind |-> ownerReference.Kind,
     Name |-> ownerReference.Name, UID |-> ownerReference.UID]

uniqueKeyFromMetadata(obj) ==
    [APIVersion |-> obj.apiVersion, Kind |-> obj.kind, Name |-> obj.name, UID |-> obj.uid]

\* the group of an apiVersion: "v1" is the core group
GroupOf(apiVersion) == IF apiVersion = "v1" THEN "" ELSE apiVersion
GroupKind(obj) == [Group |-> GroupOf(obj.apiVersion), Kind |-> obj.kind]

\* loader.filterMap, built by newLoader from the resources the user named
filterMap == {[Group |-> "", Kind |-> "K"]}

\* a loader that lets every kind through
filter_Mut(obj) == TRUE

filter(obj) == GroupKind(obj) \in filterMap

\* clearUnstructured strips the metadata the target assigns itself; of the fields
\* of the model that is metadata.uid
clearUnstructured(obj) == [obj EXCEPT !.uid = ""]

\* a hasAllOwnerReferences that is satisfied by one owner in the map
hasAllOwnerReferences_Mut(exst, obj) ==
    \E i \in 1..Len(obj.ownerReferences) :
        uniqueKeyFromOwnerReference(obj.ownerReferences[i]) \in DOMAIN exst

hasAllOwnerReferences(exst, obj) ==
    \A i \in 1..Len(obj.ownerReferences) :
        uniqueKeyFromOwnerReference(obj.ownerReferences[i]) \in DOMAIN exst

\* an updateOwnerReferences that leaves the references as the snapshot has them
updateOwnerReferences_Mut(exst, obj) == obj

updateOwnerReferences(exst, obj) ==
    [obj EXCEPT !.ownerReferences =
        [i \in 1..Len(obj.ownerReferences) |->
            LET key == uniqueKeyFromOwnerReference(obj.ownerReferences[i])
            IN IF key \in DOMAIN exst
               THEN [obj.ownerReferences[i] EXCEPT !.UID = exst[key]]
               ELSE obj.ownerReferences[i]]]

\* What the outside world does to one apply call:
\*   "ok"        every call succeeds (a create of an existing object is AlreadyExists)
\*   "nomap"     restMapper.ResourceFor fails
\*   "createErr" Create fails with an error other than AlreadyExists
\*   "conflict"  Update fails with a conflict
\*   "updateErr" Update fails with another error
Outcomes == {"ok", "nomap", "createErr", "conflict", "updateErr"}

\* what a Create addresses in the target; the objects of the model have no namespace
TargetID(obj) == [kind |-> obj.kind, name |-> obj.name]

Call(op, idx, obj, res, exst) ==
    [op |-> op, idx |-> idx, obj |-> obj, res |-> res, existKeys |-> DOMAIN exst,
     exist |-> exst]

Diag(idx, msg) == [idx |-> idx, msg |-> msg]

\* an apply that tests the error of Create for a conflict
isAlreadyExists_Mut(res) == res = "conflict"

\* line 217: the error of Create is AlreadyExists
isAlreadyExists(res) == res = "exists"

\* what Create answers: the target holds at most one object per kind and name
createResult(tgt, id, out) ==
    IF out = "createErr" THEN "error"
    ELSE IF id \in DOMAIN tgt THEN "exists" ELSE "ok"

\* what Update answers
updateResult(out) ==
    IF out = "conflict" THEN "conflict"
    ELSE IF out = "updateErr" THEN "error" ELSE "ok"

\* the outcome of the n-th apply call of one load; calls beyond the plan succeed
outcomeAt(plan, n) == IF n \in DOMAIN plan THEN plan[n] ELSE "ok"

\* loader.apply on objs[idx]; st.newUID is newObj.GetUID(), Nil when apply returns nil
apply(st, idx, out) ==
    LET obj == st.objs[idx]
        cleared == clearUnstructured(obj)
        id == TargetID(cleared)
        cres == createResult(st.target, id, out)
        ures == updateResult(out)
        create == Call("create", idx, cleared, cres, st.exist)
        update == Call("update", idx, cleared, ures, st.exist)
        failed(s, msg) == [s EXCEPT !.newUID = Nil, !.fails = @ + 1,
                                    !.diag = Append(@, Diag(idx, msg))]
        st1 == [st EXCEPT !.objs[idx] = cleared, !.calls = Append(@, create)]
    IN IF out = "nomap" THEN failed(st, "failed to get resource")
       ELSE IF cres = "ok"
       THEN [st1 EXCEPT !.target = Put(@, id, AssignedUID[cleared.name]),
                        !.newUID = AssignedUID[cleared.name],
                        !.diag = Append(@, Diag(idx, "created"))]
       ELSE IF ~isAlreadyExists(cres) THEN failed(st1, "failed to create resource")
       ELSE LET st2 == [st1 EXCEPT !.calls = Append(@, update)]
            IN IF ures = "conflict" THEN failed(st2, "conflict")
               ELSE IF ures = "error" THEN failed(st2, "failed to update resource")
               ELSE [st2 EXCEPT !.newUID = st.target[id],
                                !.diag = Append(@, Diag(idx, "updated"))]

\* a load that does not test what apply returned
isNil_Mut(newUID) == FALSE

\* lines 158, 176: apply returned nil
isNil(newUID) == newUID = Nil

\* lines 163-164, 177-178: record the UID the target assigned under the object's key
record(st, idx) ==
    LET key == uniqueKeyFromMetadata(st.objs[idx])
    IN [st EXCEPT !.exist = Put(@, key, st.newUID),
                  !.recorded = Append(@, [idx |-> idx, key |-> key, uid |-> st.newUID])]

\* a load that registers the object under its first missing owner only
RECURSIVE registerPending_Mut(_, _, _, _, _)
registerPending_Mut(pend, exst, refs, idx, i) ==
    IF i > Len(refs) THEN pend
    ELSE LET key == uniqueKeyFromOwnerReference(refs[i])
         IN IF key \in DOMAIN exst
            THEN registerPending_Mut(pend, exst, refs, idx, i + 1)
            ELSE Put(pend, key, IF key \in DOMAIN pend THEN Append(pend[key], idx) ELSE <<idx>>)

\* lines 140-146: register the object under every owner that is not in exist
RECURSIVE registerPending(_, _, _, _, _)
registerPending(pend, exst, refs, idx, i) ==
    IF i > Len(refs) THEN pend
    ELSE LET key == uniqueKeyFromOwnerReference(refs[i])
         IN IF key \in DOMAIN exst
            THEN registerPending(pend, exst, refs, idx, i + 1)
            ELSE registerPending(
                    Put(pend, key, IF key \in DOMAIN pend THEN Append(pend[key], idx) ELSE <<idx>>),
                    exst, refs, idx, i + 1)

\* a cascade that applies a pending object as soon as one of its owners is applied
pendingReady_Mut(exst, pendingObj) == Len(pendingObj.ownerReferences) >= 1

\* line 170: a pending object is applied when it has one owner reference or all of them exist
pendingReady(exst, pendingObj) ==
    Len(pendingObj.ownerReferences) = 1 \/ hasAllOwnerReferences(exst, pendingObj)

\* lines 168-181: the loop over the objects that waited for the applied object
RECURSIVE cascade(_, _, _, _)
cascade(st, pendingObjs, i, plan) ==
    IF i > Len(pendingObjs) THEN st
    ELSE LET p == pendingObjs[i]
         IN IF pendingReady(st.exist, st.objs[p])
            THEN LET s1 == [st EXCEPT !.objs[p] = updateOwnerReferences(st.exist, st.objs[p])]
                     s2 == apply(s1, p, outcomeAt(plan, i + 1))
                     s3 == IF ~isNil(s2.newUID) THEN record(s2, p) ELSE s2
                 IN cascade(s3, pendingObjs, i + 1, plan)
            ELSE cascade(st, pendingObjs, i + 1, plan)

\* a load that lets an object with a single owner reference through
mustWait_Mut(exst, obj) ==
    Len(obj.ownerReferences) > 1 /\ ~hasAllOwnerReferences(exst, obj)

\* line 148: the object waits when one of its owners is not in exist
mustWait(exst, obj) ==
    Len(obj.ownerReferences) # 0 /\ ~hasAllOwnerReferences(exst, obj)

\* loader.load on objs[idx]
load(st, idx, plan) ==
    LET obj == st.objs[idx]
        st1 == [st EXCEPT !.pending = registerPending(@, st.exist, obj.ownerReferences, idx, 1)]
    IN IF mustWait(st.exist, obj) THEN st1
       ELSE LET st2 == [st1 EXCEPT !.objs[idx] = updateOwnerReferences(st.exist, obj)]
                st3 == apply(st2, idx, outcomeAt(plan, 1))
            IN IF isNil(st3.newUID) THEN st3
               ELSE LET key == uniqueKeyFromMetadata(st3.objs[idx])
                        st4 == record(st3, idx)
                    IN IF key \in DOMAIN st4.pending
                       THEN [cascade(st4, st4.pending[key], 1, plan)
                                EXCEPT !.pending = Remove(@, key)]
                       ELSE st4

\* the apply calls one load can make: the object and the objects waiting for it
PlanLen(obj) ==
    LET key == uniqueKeyFromMetadata(clearUnstructured(obj))
    IN 1 + (IF key \in DOMAIN pending THEN Len(pending[key]) ELSE 0)

Plans(obj) ==
    IF ~filter(obj) \/ mustWait(exist, obj) THEN {<<"ok">>}
    ELSE {p \in [1..PlanLen(obj) -> Outcomes] :
            Cardinality({i \in DOMAIN p : p[i] # "ok"}) <= MaxFail - fails}

\* a callback that goes on with the object whatever the context says
ctxCancelled_Mut(err) == FALSE

\* lines 104-106: the callback returns the error of a cancelled context
ctxCancelled(err) == err

\* lines 103-118: the decoder hands one object to the callback of loader.Load
DecodeObject(obj) ==
    /\ pc = "decoding"
    /\ ~ctxCancelled(ctxErr)
    /\ Len(stream) < MaxStream
    /\ stream' = Append(stream, obj)
    /\ LET idx == Len(stream) + 1
           st0 == [objs |-> Append(objs, obj), exist |-> exist, pending |-> pending,
                   target |-> target, calls |-> calls, diag |-> diag, recorded |-> recorded,
                   fails |-> fails, newUID |-> Nil]
       IN IF ~filter(obj)
          THEN /\ filtered' = filtered \cup {idx}
               /\ objs' = st0.objs
               /\ UNCHANGED <<exist, pending, target, calls, diag, recorded, fails>>
          ELSE \E plan \in Plans(obj) :
                 LET st == load(st0, idx, plan)
                 IN /\ objs' = st.objs
                    /\ exist' = st.exist
                    /\ pending' = st.pending
                    /\ target' = st.target
                    /\ calls' = st.calls
                    /\ diag' = st.diag
                    /\ recorded' = st.recorded
                    /\ fails' = st.fails
                    /\ UNCHANGED filtered
    /\ UNCHANGED <<pc, ctxErr, srcUID, refUID, reported, cacheVars>>

Decode == \E obj \in Objects(srcUID, refUID) : DecodeObject(obj)

\* the caller cancels the context
Cancel ==
    /\ pc = "decoding"
    /\ ~ctxErr
    /\ ctxErr' = TRUE
    /\ UNCHANGED <<pc, srcUID, refUID, stream, objs, exist, pending, target, calls,
                   diag, recorded, filtered, reported, fails, cacheVars>>

\* lines 104-106, 119-121: the callback meets a cancelled context, or the decoder
\* a malformed document; Load returns the error
DecodeFail ==
    /\ pc = "decoding"
    /\ Len(stream) < MaxStream
    /\ pc' = "failed"
    /\ UNCHANGED <<ctxErr, srcUID, refUID, stream, objs, exist, pending, target, calls,
                   diag, recorded, filtered, reported, fails, cacheVars>>

\* lines 124-132: one "missing owner" line per element of every pending list
missingOwnerLines(pend, idx) ==
    LET count[ks \in SUBSET DOMAIN pend] ==
            IF ks = {} THEN 0
            ELSE LET k == CHOOSE x \in ks : TRUE
                 IN Cardinality({i \in 1..Len(pend[k]) : pend[k][i] = idx}) + count[ks \ {k}]
    IN count[DOMAIN pend]

\* lines 119-133: the stream is exhausted; Load prints the skipped objects and returns nil
Finish ==
    /\ pc = "decoding"
    /\ pc' = "done"
    /\ reported' = [idx \in 1..Len(objs) |-> missingOwnerLines(pending, idx)]
    /\ UNCHANGED <<ctxErr, srcUID, refUID, stream, objs, exist, pending, target, calls,
                   diag, recorded, filtered, fails, cacheVars>>

InitLoader ==
    /\ pc = "decoding"
    /\ ctxErr = FALSE
    /\ srcUID \in SnapshotUIDs
    /\ refUID \in SnapshotUIDs
    /\ stream = <<>>
    /\ objs = <<>>
    /\ exist = EmptyMap
    /\ pending = EmptyMap
    /\ target = EmptyMap
    /\ calls = <<>>
    /\ diag = <<>>
    /\ recorded = <<>>
    /\ filtered = {}
    /\ reported = <<>>
    /\ fails = 0

-----------------------------------------------------------------------------
(* dynamic.go *)

NumGetters == 2     \* concurrent callers of Get
MaxVer == 2         \* resource versions the feed reports
MaxCalls == 2       \* Get calls per caller

Getters == 1..NumGetters

\* the zero value of the derived type O: c.data before any conversion
ZeroData == [derivedFrom |-> -1]

\* c.convertFunc applied to store.List(): the derived value, which the model
\* identifies by the mirror state it was computed from
convertFunc(list) == [derivedFrom |-> list]

\* c.store.List(): the mirror as it is now
storeList == storeVer

InitCache ==
    /\ started = FALSE
    /\ fifoVer = 0
    /\ lastSync = 0
    /\ storeVer = 0
    /\ currentVer = 0
    /\ data = ZeroData
    /\ readers = 0
    /\ writer = 0
    /\ gpc = [p \in Getters |-> "idle"]
    /\ latestVer = [p \in Getters |-> 0]
    /\ ncalls = [p \in Getters |-> 0]
    /\ convLog = <<>>
    /\ retLog = {}

\* lines 62-82: Start builds the informer, starts controller.Run in a goroutine and
\* returns store.Resync(), which for the informer's store does nothing and returns nil
Start ==
    /\ ~started
    /\ started' = TRUE
    /\ UNCHANGED <<fifoVer, lastSync, storeVer, currentVer, data, readers, writer,
                   gpc, latestVer, ncalls, convLog, retLog, loaderVars>>

\* controller.Run, reflector: the list result or a watch event is pushed into the
\* informer's queue ...
FeedPush ==
    /\ started
    /\ fifoVer = lastSync
    /\ fifoVer < MaxVer
    /\ fifoVer' = fifoVer + 1
    /\ UNCHANGED <<started, lastSync, storeVer, currentVer, data, readers, writer,
                   gpc, latestVer, ncalls, convLog, retLog, loaderVars>>

\* ... and then the reflector records its resource version as the last one synced
FeedSetVersion ==
    /\ lastSync < fifoVer
    /\ lastSync' = fifoVer
    /\ UNCHANGED <<started, fifoVer, storeVer, currentVer, data, readers, writer,
                   gpc, latestVer, ncalls, convLog, retLog, loaderVars>>

\* controller.Run, processLoop: a queued change is popped and written to the mirror store
MirrorApply ==
    /\ storeVer < fifoVer
    /\ storeVer' = storeVer + 1
    /\ UNCHANGED <<started, fifoVer, lastSync, currentVer, data, readers, writer,
                   gpc, latestVer, ncalls, convLog, retLog, loaderVars>>

Returned(p, d) == [getter |-> p, call |-> ncalls[p], token |-> latestVer[p], data |-> d]

\* line 85: Get reads the feed's token before it takes any lock
GetReadVersion(p) ==
    /\ started
    /\ gpc[p] = "idle"
    /\ ncalls[p] < MaxCalls
    /\ latestVer' = [latestVer EXCEPT ![p] = lastSync]
    /\ ncalls' = [ncalls EXCEPT ![p] = @ + 1]
    /\ gpc' = [gpc EXCEPT ![p] = "rlock"]
    /\ UNCHANGED <<started, fifoVer, lastSync, storeVer, currentVer, data, readers, writer,
                   convLog, retLog, loaderVars>>

\* line 87: c.mut.RLock()
GetRLock(p) ==
    /\ gpc[p] = "rlock"
    /\ writer = 0
    /\ readers' = readers + 1
    /\ gpc' = [gpc EXCEPT ![p] = "check"]
    /\ UNCHANGED <<started, fifoVer, lastSync, storeVer, currentVer, data, writer,
                   latestVer, ncalls, convLog, retLog, loaderVars>>

\* lines 88, 100: the cached value is served when the token read equals c.currentVer
upToDate(latest, current) == latest = current

\* lines 88-93: the fast path
GetCheck(p) ==
    /\ gpc[p] = "check"
    /\ readers' = readers - 1
    /\ IF upToDate(latestVer[p], currentVer)
       THEN /\ retLog' = retLog \cup {Returned(p, data)}
            /\ gpc' = [gpc EXCEPT ![p] = "idle"]
       ELSE /\ gpc' = [gpc EXCEPT ![p] = "lock"]
            /\ UNCHANGED retLog
    /\ UNCHANGED <<started, fifoVer, lastSync, storeVer, currentVer, data, writer,
                   latestVer, ncalls, convLog, loaderVars>>

\* line 98: c.mut.Lock()
UpdateLock(p) ==
    /\ gpc[p] = "lock"
    /\ writer = 0
    /\ readers = 0
    /\ writer' = p
    /\ gpc' = [gpc EXCEPT ![p] = "update"]
    /\ UNCHANGED <<started, fifoVer, lastSync, storeVer, currentVer, data, readers,
                   latestVer, ncalls, convLog, retLog, loaderVars>>

Conversion(p, d) ==
    [getter |-> p, label |-> latestVer[p], feed |-> lastSync, stored |-> currentVer,
     data |-> d]

\* lines 99-114: the re-check, the conversion and the deferred Unlock
UpdateAndReturn(p) ==
    /\ gpc[p] = "update"
    /\ writer = p
    /\ writer' = 0
    /\ gpc' = [gpc EXCEPT ![p] = "idle"]
    /\ IF upToDate(latestVer[p], currentVer)
       THEN /\ retLog' = retLog \cup {Returned(p, data)}
            /\ UNCHANGED <<data, currentVer, convLog>>
       ELSE LET d == convertFunc(storeList)
            IN /\ data' = d
               /\ currentVer' = latestVer[p]
               /\ convLog' = Append(convLog, Conversion(p, d))
               /\ retLog' = retLog \cup {Returned(p, d)}
    /\ UNCHANGED <<started, fifoVer, lastSync, storeVer, readers, latestVer, ncalls,
                   loaderVars>>

Get == \E p \in Getters :
          \/ GetReadVersion(p)
          \/ GetRLock(p)
          \/ GetCheck(p)
          \/ UpdateLock(p)
          \/ UpdateAndReturn(p)

Init == InitLoader /\ InitCache

Next == Decode \/ Cancel \/ DecodeFail \/ Finish

Spec == Init /\ [][Next]_vars

NextCache == Start \/ FeedPush \/ FeedSetVersion \/ MirrorApply \/ Get

SpecCache == Init /\ [][NextCache]_vars

-----------------------------------------------------------------------------
(* Helpers of the properties *)

\* the (group, kind) of the object is in the Filter Set
Permitted(obj) == GroupKind(obj) \in filterMap
CallsOf(idx) == SelectSeq(calls, LAMBDA c : c.idx = idx)
Submitted(idx) == \E i \in 1..Len(calls) : calls[i].idx = idx
InPending(idx) == \E k \in DOMAIN pending : \E i \in 1..Len(pending[k]) : pending[k][i] = idx
OriginRefs(idx) == stream[idx].ownerReferences
OriginKeys(idx) == {uniqueKeyFromOwnerReference(OriginRefs(idx)[i]) : i \in 1..Len(OriginRefs(idx))}
\* the call at position p was made for an object taken from the Pending Queue
FromCascade(p) == \E q \in 1..(p - 1) : calls[q].idx > calls[p].idx
\* an object with this origin identity was decoded
Appears(key) == \E j \in 1..Len(stream) : uniqueKeyFromMetadata(stream[j]) = key

\* the stream is C, B, A: A has no owner, B's only owner is A, C's only owner is B
IsChain ==
    /\ Len(stream) = 3
    /\ \A i \in 1..3 : Permitted(stream[i])
    /\ Len(OriginRefs(3)) = 0
    /\ Len(OriginRefs(2)) = 1
    /\ Len(OriginRefs(1)) = 1
    /\ OriginKeys(2) = {uniqueKeyFromMetadata(stream[3])}
    /\ OriginKeys(1) = {uniqueKeyFromMetadata(stream[2])}
    /\ Cardinality({stream[i].name : i \in 1..3}) = 3

\* C1: when Load has returned from a stream C, B, A forming an owner chain and no
\* call failed, the write client received exactly the creates of A, of B with its
\* owner UID rewritten to the UID assigned to A, and of C with its owner UID
\* rewritten to the UID assigned to B, in this order, and the Pending Queue is empty.
\* Stated for the chains whose objects carry no metadata.uid, for which
\* clearUnstructured changes nothing: what fails is the loop of lines 166-184.
C1_ChainOrdering ==
    (pc = "done" /\ IsChain /\ fails = 0 /\ srcUID = "") =>
        /\ Len(calls) = 3
        /\ \A i \in 1..3 : calls[i].op = "create" /\ calls[i].res = "ok"
        /\ calls[1].idx = 3 /\ calls[2].idx = 2 /\ calls[3].idx = 1
        /\ calls[2].obj.ownerReferences[1].UID = target[TargetID(stream[3])]
        /\ calls[3].obj.ownerReferences[1].UID = target[TargetID(stream[2])]
        /\ DOMAIN pending = {}

\* C4: an object whose (group, kind) is not in the Filter Set is logged as
\* filtered, is in no call of the write client, in no list of the Pending Queue
\* and under no key of the Resolved-Identity Map.
C4_Filtering ==
    \A idx \in 1..Len(stream) :
        ~Permitted(stream[idx]) =>
            /\ idx \in filtered
            /\ ~Submitted(idx)
            /\ ~InPending(idx)
            /\ \A i \in 1..Len(recorded) : recorded[i].idx # idx
            /\ uniqueKeyFromMetadata(stream[idx]) \notin DOMAIN exist
            /\ uniqueKeyFromMetadata(clearUnstructured(stream[idx])) \notin DOMAIN exist
            /\ objs[idx] = stream[idx]

\* C4 witness: a filtered object whose owner is resolved was decoded after an
\* applied object and before another applied object.
C4_Witness ==
    \E idx \in 1..Len(stream) :
        /\ ~Permitted(stream[idx])
        /\ Len(OriginRefs(idx)) > 0
        /\ OriginKeys(idx) \subseteq DOMAIN exist
        /\ \E i, j \in 1..Len(calls) : calls[i].idx < idx /\ calls[j].idx > idx

\* C5: when Load has returned, a permitted object with owner references to
\* distinct owners, none of which was decoded from the stream, is in no call of
\* the write client and has exactly one "missing owner" line.
C5_UnresolvedReportedOnce ==
    pc = "done" =>
        \A idx \in 1..Len(stream) :
            (/\ Permitted(stream[idx])
             /\ Len(OriginRefs(idx)) > 0
             /\ Cardinality(OriginKeys(idx)) = Len(OriginRefs(idx))
             /\ \A k \in OriginKeys(idx) : ~Appears(k))
            => (~Submitted(idx) /\ reported[idx] = 1)

\* the object at idx occurs again at j, and nothing of its kind and name is decoded before or between
IsRepeat(i, j) ==
    /\ i < j
    /\ stream[i] = stream[j]
    /\ Permitted(stream[i])
    /\ Len(OriginRefs(i)) = 0
    /\ \A h \in 1..(j - 1) : h # i => TargetID(stream[h]) # TargetID(stream[i])

\* kind resolution failed for the object, or its create failed other than with already-exists
EnvFailed(idx) ==
    \/ \E d \in 1..Len(diag) : diag[d].idx = idx /\ diag[d].msg = "failed to get resource"
    \/ \E c \in 1..Len(calls) : calls[c].idx = idx /\ calls[c].op = "create" /\ calls[c].res = "error"

\* C6: when a permitted object without owners is decoded twice and the target did
\* not hold it, and neither kind resolution nor the create itself broke down, the
\* write client received for the first occurrence one create, which succeeded, and
\* for the second one create, answered already-exists, followed by one update;
\* Load goes on decoding (C6_Witness: and returns nil).
C6_IdempotentApply ==
    \A i, j \in 1..Len(stream) :
        (IsRepeat(i, j) /\ ~EnvFailed(i) /\ ~EnvFailed(j)) =>
            /\ Len(CallsOf(i)) = 1
            /\ CallsOf(i)[1].op = "create" /\ CallsOf(i)[1].res = "ok"
            /\ Len(CallsOf(j)) = 2
            /\ CallsOf(j)[1].op = "create" /\ CallsOf(j)[1].res = "exists"
            /\ CallsOf(j)[2].op = "update"

\* C6 witness: Load has returned nil after the same object was decoded twice, created and updated.
C6_Witness ==
    /\ pc = "done"
    /\ \E i, j \in 1..Len(stream) :
        /\ IsRepeat(i, j)
        /\ Len(CallsOf(j)) = 2
        /\ CallsOf(j)[2].res = "ok"

AbandonMsgs ==
    {"failed to get resource", "failed to create resource", "conflict", "failed to update resource"}
Abandoned(dg) == {dg[d].idx : d \in {x \in 1..Len(dg) : dg[x].msg \in AbandonMsgs}}

\* C7: a step in which apply abandons an object (kind resolution failed, create
\* failed other than already-exists, update failed) leaves Load decoding, writes
\* nothing to the Resolved-Identity Map for that object, and the rest of the
\* stream can still be decoded or Load return nil.
C7_FailureNotFatal ==
    [][fails' > fails =>
        /\ pc' = "decoding"
        /\ \A i \in 1..Len(recorded') : recorded'[i].idx \notin Abandoned(diag')
        /\ DOMAIN exist' = DOMAIN exist \cup {recorded'[i].key : i \in (Len(recorded) + 1)..Len(recorded')}
      ]_vars

\* C7 witness: Load has returned nil although an object was abandoned, and an
\* object decoded after the abandoned one was applied.
C7_Witness ==
    /\ pc = "done"
    /\ \E d \in 1..Len(diag) :
        /\ diag[d].msg \in AbandonMsgs
        /\ \E e \in (d + 1)..Len(diag) : diag[e].idx > diag[d].idx /\ diag[e].msg = "created"

\* C9: whenever the write client receives an object, every owner reference the
\* object was decoded with is a key of the Resolved-Identity Map at that moment,
\* and an object with that key was successfully submitted earlier in the load.
C9_OwnersFirst ==
    \A p \in 1..Len(calls) :
        \A k \in OriginKeys(calls[p].idx) :
            /\ k \in calls[p].existKeys
            /\ \E q \in 1..(p - 1) :
                /\ calls[q].res = "ok"
                /\ uniqueKeyFromMetadata(calls[q].obj) = k

\* C9 witness: an object with owners was applied directly on decode and another
\* one from the Pending Queue.
C9_Witness ==
    \E p, q \in 1..Len(calls) :
        /\ Len(OriginRefs(calls[p].idx)) > 0
        /\ Len(OriginRefs(calls[q].idx)) > 1
        /\ ~FromCascade(p)
        /\ FromCascade(q)

\* C10: when Load has returned, every object in the Pending Queue has an owner
\* that is not a key of the Resolved-Identity Map, has a "missing owner" line,
\* and is in no call of the write client.
\* Stated for the snapshots whose objects carry no metadata.uid, for which
\* clearUnstructured changes nothing: what fails is the loop of lines 166-184.
C10_EndOfLoadReport ==
    (pc = "done" /\ srcUID = "") =>
        \A idx \in 1..Len(stream) :
            InPending(idx) =>
                /\ \E k \in OriginKeys(idx) : k \notin DOMAIN exist
                /\ reported[idx] >= 1
                /\ ~Submitted(idx)

\* C2: a conversion never runs unless the feed reports a token newer than the
\* token of every earlier conversion.
C2_SingleRecomputation ==
    \A i, j \in 1..Len(convLog) :
        i < j => convLog[j].feed > convLog[i].label

\* C3: the value a Get returns after at least one feed update was converted from
\* a mirror at least as new as the token that Get read.
C3_CacheFreshness ==
    \A r \in retLog : r.token >= 1 => r.data.derivedFrom >= r.token

\* C8: no Get returns the never-computed zero value or a value converted from
\* the mirror as it was before the initial list.
C8_FirstGetAfterStart ==
    \A r \in retLog : r.data # ZeroData /\ r.data.derivedFrom >= 1

-----------------------------------------------------------------------------
(* C11: decode errors and cancellation *)

\* what Load has done to the stream, the queue, the map and the target
loadState == <<stream, objs, filtered, exist, pending, target, calls, diag, recorded>>

\* C11 as stated, its part on the result of Load: once the context is cancelled or
\* a malformed document is met, Load returns an error, so it never returns success
\* with a cancelled context.
C11_CancelReturnsError == ctxErr => pc # "done"

\* C11 (amended): once the context is cancelled or Load has failed, no later object of
\* the stream is filtered, queued or submitted and nothing applied is undone: the
\* stream, the queue, the map, the target and the calls made so far stay as they are.
\* Load then returns the error when the callback runs once more or a malformed
\* document is met, and success when the stream ends first.
C11_StopAtBoundary ==
    [][(ctxErr \/ pc = "failed") =>
          /\ loadState' = loadState
          /\ pc' \in {pc, "failed", "done"}
          /\ pc = "failed" => pc' = "failed"]_vars

\* Load has failed on a cancelled context after objects were applied, and they are
\* still in the target
C11_Witness ==
    /\ pc = "failed"
    /\ ctxErr
    /\ Len(calls) > 0
    /\ DOMAIN target # {}
    /\ Len(stream) < MaxStream

-----------------------------------------------------------------------------
(* C12: identity recording *)

\* C12: after an object of the snapshot is created or updated with success, the map
\* holds its origin tuple (APIVersion, Kind, Name and the UID the snapshot records
\* for it) and maps it to the UID the target assigned, so an owner reference that
\* carries the snapshot's UID finds its owner.
C12_IdentityRecording ==
    \A i \in 1..Len(recorded) :
        LET origin == uniqueKeyFromMetadata(stream[recorded[i].idx])
        IN /\ recorded[i].key = origin
           /\ origin \in DOMAIN exist
           /\ exist[origin] = recorded[i].uid

-----------------------------------------------------------------------------
(* C13: owner identifier remapping *)

\* the calls of the write client whose object has owner references, with the origin
\* reference each of them was rewritten from
RemappedCalls == {p \in 1..Len(calls) : Len(calls[p].obj.ownerReferences) > 0}

\* C13: every object that reaches the write client with owner references carries,
\* in each of them, the UID the target assigned to that owner (the value the map
\* holds for the owner's origin tuple at the time of the call) and never the UID
\* of the snapshot; this holds for objects applied directly and from the cascade.
C13_OwnerRemapping ==
    \A p \in RemappedCalls :
        LET sent == calls[p].obj.ownerReferences
            origin == OriginRefs(calls[p].idx)
        IN /\ Len(sent) = Len(origin)
           /\ \A i \in 1..Len(sent) :
                LET key == uniqueKeyFromOwnerReference(origin[i])
                IN /\ key \in DOMAIN calls[p].exist
                   /\ sent[i].UID = calls[p].exist[key]
                   /\ sent[i].UID \notin SnapshotUIDs
                   /\ [sent[i] EXCEPT !.UID = origin[i].UID] = origin[i]

\* one object with one owner was created directly and another from the cascade
C13_Witness ==
    \E p, q \in RemappedCalls :
        /\ ~FromCascade(p)
        /\ FromCascade(q)
        /\ calls[p].res = "ok"
        /\ calls[q].res = "ok"
        /\ Len(calls[q].obj.ownerReferences) = 1

-----------------------------------------------------------------------------
(* C14: the cascade rule *)

\* apply was called for the object: every path through apply leaves a diagnostic
Handed(idx) == \E d \in 1..Len(diag) : diag[d].idx = idx

\* C14: once an object with origin identity K is applied with success, the
\* dependents that waited under K and are ready (exactly one owner reference, or
\* all owner references in the map) have been submitted, and the Pending Queue has
\* no entry for K.  Stated for snapshots whose objects carry no metadata.uid.
C14_CascadeRule ==
    srcUID = "" =>
        \A i \in 1..Len(recorded) :
            LET K == uniqueKeyFromMetadata(stream[recorded[i].idx])
            IN /\ K \notin DOMAIN pending
               /\ \A d \in 1..Len(stream) :
                    (Permitted(stream[d]) /\ OriginKeys(d) = {K} /\ Len(OriginRefs(d)) = 1)
                        => Handed(d)

-----------------------------------------------------------------------------
(* C15: the Resolved-Identity Map is append-only *)

\* the objects for which apply ended with success
Succeeded(dg) == {dg[d].idx : d \in {x \in 1..Len(dg) : dg[x].msg \in {"created", "updated"}}}

\* C15: within one load the map only grows by the successful applies: its keys are
\* the origin identities of the objects that were created or updated with success,
\* each such object wrote the map exactly once, and an object whose apply failed or
\* was abandoned wrote nothing.
C15_AppendOnlyMap ==
    /\ \A i, j \in 1..Len(recorded) : recorded[i].idx = recorded[j].idx => i = j
    /\ {recorded[i].idx : i \in 1..Len(recorded)} = Succeeded(diag)
    /\ DOMAIN exist = {recorded[i].key : i \in 1..Len(recorded)}
    /\ DOMAIN exist = {uniqueKeyFromMetadata(stream[idx]) : idx \in Succeeded(diag)}

-----------------------------------------------------------------------------
(* C16: ownership cycles *)

\* the permitted objects at i and j own each other (i = j: the object owns itself)
\* and no other object of the stream has the kind and name of either
IsCycle(i, j) ==
    /\ Permitted(stream[i])
    /\ Permitted(stream[j])
    /\ uniqueKeyFromMetadata(stream[j]) \in OriginKeys(i)
    /\ uniqueKeyFromMetadata(stream[i]) \in OriginKeys(j)
    /\ \A h \in 1..Len(stream) :
          TargetID(stream[h]) \in {TargetID(stream[i]), TargetID(stream[j])} => h \in {i, j}

\* C16: for a stream with objects whose owner references form a cycle, no object of
\* the cycle is ever passed to apply or to the write client, each stays in the
\* Pending Queue, Load can always end (the stream's end is never blocked), and when
\* it has returned success each object of the cycle was reported as skipped.
C16_CyclesDoNotHang ==
    \A i, j \in 1..Len(stream) :
        IsCycle(i, j) =>
            /\ ~Submitted(i)
            /\ ~Handed(i)
            /\ InPending(i)
            /\ pc = "decoding" => ENABLED Finish
            /\ pc = "done" => reported[i] >= 1

\* Load returned success on a stream with a cycle of two objects and with an object
\* that owns itself, all three reported
C16_Witness ==
    /\ pc = "done"
    /\ ~ctxErr
    /\ \E i, j, k \in 1..Len(stream) :
          /\ i # j
          /\ IsCycle(i, j)
          /\ IsCycle(k, k)
          /\ reported[i] >= 1 /\ reported[j] >= 1 /\ reported[k] >= 1
          /\ k \notin {i, j}

-----------------------------------------------------------------------------
(* C17, C18: the version label of the derived value *)

\* C17: in every state the token stored with the derived value is not older than
\* the state of the mirror the value was converted from.
C17_VersionLabel == data # ZeroData => currentVer >= data.derivedFrom

\* C18: the stored token is monotone: a conversion never replaces the stored token
\* with an older one.
C18_MonotoneToken ==
    \A i \in 1..Len(convLog) : convLog[i].label >= convLog[i].stored

-----------------------------------------------------------------------------
(* C19: no silent loss *)

\* C19: when Load has returned success, every permitted object of the stream was
\* either passed to apply (submitted, or abandoned there with a diagnostic) or is
\* in the Pending Queue and therefore in the skipped report.
C19_NoSilentLoss ==
    pc = "done" =>
        \A idx \in 1..Len(stream) :
            Permitted(stream[idx]) =>
                \/ Handed(idx)
                \/ InPending(idx) /\ reported[idx] >= 1

\* Load returned success with an object of two owners of which one was applied:
\* the cascade discarded its entry under that owner, and it is reported under the other
C19_Witness ==
    /\ pc = "done"
    /\ \E idx \in 1..Len(stream) :
          /\ Permitted(stream[idx])
          /\ Cardinality(OriginKeys(idx)) = 2
          /\ \E k \in OriginKeys(idx) :
                /\ k \in DOMAIN exist
                /\ \E i \in 1..Len(recorded) : recorded[i].key = k /\ recorded[i].idx > idx
          /\ ~Handed(idx)
          /\ reported[idx] = 1

-----------------------------------------------------------------------------
(* C20: no double submission *)

\* the create calls the write client received for the object
Creates(idx) == {p \in 1..Len(calls) : calls[p].idx = idx /\ calls[p].op = "create"}

\* C20: the write client receives at most one create call for each decoded object,
\* also when the object has several owner references and waited under several keys
\* of the Pending Queue.
C20_NoDoubleSubmission ==
    \A idx \in 1..Len(stream) : Cardinality(Creates(idx)) <= 1

\* an object that waited under the keys of two owners, which were applied one after
\* the other, was created once
C20_Witness ==
    \E idx \in 1..Len(stream) :
        /\ Cardinality(OriginKeys(idx)) = 2
        /\ \A k \in OriginKeys(idx) :
              \E i \in 1..Len(recorded) : recorded[i].key = k /\ recorded[i].idx > idx
        /\ Cardinality(Creates(idx)) = 1
        /\ \E p \in Creates(idx) : calls[p].res = "ok"

====
